---- MODULE Spec2Model ----
(***************************************************************************)
(* Model of ggez's graphics::canvas module (src/graphics/canvas.rs):       *)
(* creation of an off-screen render target (Canvas::new,                   *)
(* Canvas::with_window_size), its accessors (get_image, into_inner), the   *)
(* Drawable blend-mode accessors, and the switch of the context's active   *)
(* render destination (set_canvas).                                        *)
(*                                                                         *)
(* gfx handles (textures, shader-resource views, render-target views) are  *)
(* shared-ownership handles: a texture lives while some handle refers to   *)
(* it.  The model counts the handles of every texture; the texture is      *)
(* destroyed when the count reaches zero.                                  *)
(***************************************************************************)
EXTENDS Integers, FiniteSets, Sequences, TLC

(* ------------------------------ bounds -------------------------------- *)

\* Number of canvas values the application may create.
MaxCanvases == 2

\* Largest texture dimension the graphics backend accepts.
MaxTextureSize == 2

(* ----------------------------- constants ------------------------------ *)

\* u16 arithmetic: `width as u16` keeps the value modulo 2^16.
TwoPow16 == 65536

(* ------------------------------ inputs -------------------------------- *)

CanvasIds == 1..MaxCanvases
TexIds == 1..MaxCanvases

\* Requested u32 dimensions: zero, the valid range, the first value past the
\* backend limit, and the first values past the u16 range.
Dims == {0, 1, MaxTextureSize, MaxTextureSize + 1, TwoPow16, TwoPow16 + 1}

\* conf::NumSamples, by discriminant: One, Two, Four, Eight, Sixteen.
NumSamples == {1, 2, 4, 8, 16}

\* Option<BlendMode>.
NoBlend == "None"
BlendModes == {"Alpha", "Add"}
OptBlendModes == {NoBlend} \cup BlendModes

\* Which factory call, if any, the backend rejects for a reason other than
\* the size of the texture (out of memory, unsupported sample count, ...).
Faults == {"none", "create_texture", "shader_resource", "render_target"}

\* Render-target handles: the screen's, or the view of texture t.
ScreenTarget == 0
NoTexture == 0
NoCanvas == 0

VARIABLES
    textures,               \* the factory's textures, by id
    canvases,               \* the application's Canvas values
    images,                 \* the Images taken out by into_inner, by canvas
    data_out,               \* ctx.gfx_context.data.out
    screen_render_target,   \* ctx.gfx_context.screen_render_target
    default_sampler_info,   \* ctx.gfx_context.default_sampler_info
    request,                \* the size and samples the application asks for
    result,                 \* what the latest Canvas::new returned
    lastTarget,             \* target of the most recent set_canvas call
    blendSet                \* per canvas, the mode of its latest set_blend_mode

vars == <<textures, canvases, images, data_out, screen_render_target,
          default_sampler_info, request, result, lastTarget, blendSet>>

(* ------------------------- gfx handles -------------------------------- *)

\* gfx::texture::AaMode::Single.
AaSingle == [multi |-> FALSE, n |-> 0]

BlankTexture ==
    [allocated |-> FALSE, refs |-> 0, width |-> 0, height |-> 0,
     aa |-> AaSingle]

\* Handle clone: one more handle refers to texture t.
retain(txs, t) ==
    IF t \notin TexIds THEN txs
    ELSE [txs EXCEPT ![t].refs = @ + 1]

\* Handle drop: the texture is destroyed with its last handle.
release(txs, t) ==
    IF t \notin TexIds \/ ~txs[t].allocated THEN txs
    ELSE IF txs[t].refs <= 1 THEN [txs EXCEPT ![t] = BlankTexture]
    ELSE [txs EXCEPT ![t].refs = @ - 1]

(* ------------------------- the factory -------------------------------- *)

\* `s as u8` of the discriminant of a NumSamples.
as_u8(s) == s % 256

\* match samples { NumSamples::One => AaMode::Single, s => AaMode::Multi(s as u8) }.
AaMode(samples) ==
    IF samples = 1 THEN AaSingle ELSE [multi |-> TRUE, n |-> as_u8(samples)]

\* `x as u16` of a u32.
as_u16(x) == x % TwoPow16

\* Kind::D2(w, h, aa).
Kind_D2(w, h, aa) == [width |-> w, height |-> h, aa |-> aa]

\* The id the factory gives the next texture.
FreeTexId(txs) ==
    CHOOSE t \in TexIds :
        /\ ~txs[t].allocated
        /\ \A u \in TexIds : ~txs[u].allocated => t <= u

\* The sizes the backend can create a texture of.
SizeSupported(kind) ==
    /\ kind.width >= 1 /\ kind.width <= MaxTextureSize
    /\ kind.height >= 1 /\ kind.height <= MaxTextureSize

Failure(err, txs) ==
    [ok |-> FALSE, err |-> err, tex |-> NoTexture, textures |-> txs]

\* factory.create_texture(kind, ...): a new texture held by one handle.
create_texture(txs, kind, fault) ==
    IF ~SizeSupported(kind) THEN Failure("UnsupportedSize", txs)
    ELSE IF fault = "create_texture" THEN Failure("BackendFailure", txs)
    ELSE LET t == FreeTexId(txs) IN
         [ok |-> TRUE, err |-> "", tex |-> t,
          textures |-> [txs EXCEPT ![t] =
              [allocated |-> TRUE, refs |-> 1, width |-> kind.width,
               height |-> kind.height, aa |-> kind.aa]]]

\* factory.view_texture_as_shader_resource(&tex, ...): a view holds the texture.
view_texture_as_shader_resource(txs, t, fault) ==
    IF fault = "shader_resource" THEN Failure("BackendFailure", txs)
    ELSE [ok |-> TRUE, err |-> "", tex |-> t, textures |-> retain(txs, t)]

\* factory.view_texture_as_render_target(&tex, 0, None).
view_texture_as_render_target(txs, t, fault) ==
    IF fault = "render_target" THEN Failure("BackendFailure", txs)
    ELSE [ok |-> TRUE, err |-> "", tex |-> t, textures |-> retain(txs, t)]

(* ------------------------- Canvas::new -------------------------------- *)

NoImage ==
    [texture |-> NoTexture, sampler_info |-> "", blend_mode |-> NoBlend,
     width |-> 0, height |-> 0]

BlankCanvas == [state |-> "unborn", target |-> NoTexture, image |-> NoImage]

\* A wrong Image literal: width and height exchanged.
new_image_swapped(resource, sampler, width, height) ==
    [texture |-> resource, sampler_info |-> sampler, blend_mode |-> NoBlend,
     width |-> height, height |-> width]

\* The Image literal of Canvas::new.
new_image(resource, sampler, width, height) ==
    [texture |-> resource, sampler_info |-> sampler, blend_mode |-> NoBlend,
     width |-> width, height |-> height]

\* A wrong early return: the handles made so far are never dropped.
drop_locals_leak(txs, t, n) == txs

\* An early return by `?` drops the n handles made so far.
drop_locals(txs, t, n) ==
    IF n = 0 THEN txs
    ELSE IF n = 1 THEN release(txs, t)
    ELSE release(release(txs, t), t)

\* Err(err) out of the step-th factory call.
NewFailure(err, step, txs) ==
    [ok |-> FALSE, err |-> err, step |-> step, canvas |-> BlankCanvas,
     textures |-> txs]

\* Canvas::new(ctx, width, height, samples) on the factory state txs.
CanvasNew(txs, sampler, width, height, samples, fault) ==
    LET w == as_u16(width)
        h == as_u16(height)
        kind == Kind_D2(w, h, AaMode(samples))
        tex == create_texture(txs, kind, fault)
    IN  IF ~tex.ok THEN NewFailure(tex.err, 1, drop_locals(tex.textures, NoTexture, 0))
        ELSE
        LET resource == view_texture_as_shader_resource(tex.textures, tex.tex, fault)
        IN  IF ~resource.ok
            THEN NewFailure(resource.err, 2, drop_locals(resource.textures, tex.tex, 1))
            ELSE
            LET target == view_texture_as_render_target(resource.textures, tex.tex, fault)
            IN  IF ~target.ok
                THEN NewFailure(target.err, 3, drop_locals(target.textures, tex.tex, 2))
                ELSE
                [ok |-> TRUE, err |-> "", step |-> 0,
                 canvas |-> [state |-> "live", target |-> tex.tex,
                             image |-> new_image(tex.tex, sampler, width, height)],
                 \* `tex` goes out of scope; the two views keep the texture.
                 textures |-> release(target.textures, tex.tex)]

(* --------------------------- state ------------------------------------ *)

\* gfx::texture::FilterMethod of the default sampler.
SamplerInfos == {"Linear", "Nearest"}

\* GameResult<Canvas> without the Canvas: Ok, or Err(err) from a factory call.
Returned(r) == [ok |-> r.ok, err |-> r.err, step |-> r.step]

NoResult == [ok |-> TRUE, err |-> "", step |-> 0]

NoTarget ==
    [called |-> FALSE, canvas |-> NoCanvas, view |-> ScreenTarget,
     prev_out |-> ScreenTarget]

\* The requests of all sizes and sample counts.
Requests == [width : Dims, height : Dims, samples : NumSamples]

\* The state of a new context, for an application that asks for canvases
\* as one of the requests rs.
InitWith(rs) ==
    /\ textures = [t \in TexIds |-> BlankTexture]
    /\ canvases = [c \in CanvasIds |-> BlankCanvas]
    /\ images = [c \in CanvasIds |-> NoImage]
    /\ screen_render_target = ScreenTarget
    /\ data_out = screen_render_target
    /\ default_sampler_info \in SamplerInfos
    /\ request \in rs
    /\ result = NoResult
    /\ lastTarget = NoTarget
    /\ blendSet = [c \in CanvasIds |-> NoBlend]

Live(c) == canvases[c].state = "live"

\* The variable the application binds the next Canvas to.
NextCanvas(c) ==
    /\ canvases[c].state = "unborn"
    /\ \A d \in CanvasIds : canvases[d].state = "unborn" => c <= d

(* ------------------------- operations --------------------------------- *)

\* Canvas::new(ctx, width, height, samples).
Canvas_new(c, width, height, samples, fault) ==
    LET r == CanvasNew(textures, default_sampler_info, width, height, samples, fault)
    IN  /\ NextCanvas(c)
        /\ textures' = r.textures
        /\ canvases' = IF r.ok THEN [canvases EXCEPT ![c] = r.canvas] ELSE canvases
        /\ result' = Returned(r)
        /\ UNCHANGED <<images, data_out, screen_render_target,
                       default_sampler_info, request, lastTarget, blendSet>>

\* Canvas::with_window_size(ctx); (w, h) is what get_drawable_size returns.
with_window_size(c, w, h, fault) ==
    Canvas_new(c, w, h, 1, fault)

\* What Canvas::get_image(&self) returns: &self.image.
get_image_value(cv) == cv.image

\* Canvas::get_image(&self).
get_image(c) ==
    /\ Live(c)
    /\ UNCHANGED vars

\* A wrong into_inner: the Image is rebuilt with the stock sampler.
into_inner_value_resampled(cv) == [cv.image EXCEPT !.sampler_info = "Linear"]

\* What Canvas::into_inner(self) returns: self.image.
into_inner_value(cv) == cv.image

\* A wrong into_inner: rendering is sent back to the screen.
into_inner_unbinding(c) ==
    /\ Live(c)
    /\ images' = [images EXCEPT ![c] = into_inner_value(canvases[c])]
    /\ canvases' = [canvases EXCEPT ![c] = [BlankCanvas EXCEPT !.state = "consumed"]]
    /\ data_out' = screen_render_target
    /\ textures' = release(release(textures, canvases[c].target), data_out)
    /\ UNCHANGED <<screen_render_target, default_sampler_info, request, result,
                   lastTarget, blendSet>>

\* Canvas::into_inner(self): the image moves out, self.target is dropped.
into_inner(c) ==
    /\ Live(c)
    /\ images' = [images EXCEPT ![c] = into_inner_value(canvases[c])]
    /\ canvases' = [canvases EXCEPT ![c] = [BlankCanvas EXCEPT !.state = "consumed"]]
    /\ textures' = release(textures, canvases[c].target)
    /\ UNCHANGED <<data_out, screen_render_target, default_sampler_info,
                   request, result, lastTarget, blendSet>>

\* The Canvas goes out of scope: self.target and self.image are dropped.
drop_canvas(c) ==
    /\ Live(c)
    /\ canvases' = [canvases EXCEPT ![c] = [BlankCanvas EXCEPT !.state = "dropped"]]
    /\ textures' = release(release(textures, canvases[c].target),
                           canvases[c].image.texture)
    /\ UNCHANGED <<images, data_out, screen_render_target, default_sampler_info,
                   request, result, lastTarget, blendSet>>

\* The Image taken out of canvas c goes out of scope.
drop_image(c) ==
    /\ images[c] # NoImage
    /\ images' = [images EXCEPT ![c] = NoImage]
    /\ textures' = release(textures, images[c].texture)
    /\ UNCHANGED <<canvases, data_out, screen_render_target, default_sampler_info,
                   request, result, lastTarget, blendSet>>

\* A wrong set_blend_mode: None is taken as "leave the mode alone".
stored_blend_mode_some_only(old, mode) == IF mode = NoBlend THEN old ELSE mode

\* self.image.blend_mode = mode.
stored_blend_mode(old, mode) == mode

\* Drawable::set_blend_mode(&mut self, mode).
set_blend_mode(c, mode) ==
    /\ Live(c)
    /\ canvases' = [canvases EXCEPT ![c].image.blend_mode =
                        stored_blend_mode(@, mode)]
    /\ blendSet' = [blendSet EXCEPT ![c] = mode]
    /\ UNCHANGED <<textures, images, data_out, screen_render_target,
                   default_sampler_info, request, result, lastTarget>>

\* What Drawable::get_blend_mode(&self) returns: self.image.blend_mode.
get_blend_mode_value(cv) == cv.image.blend_mode

\* Drawable::get_blend_mode(&self).
get_blend_mode(c) ==
    /\ Live(c)
    /\ UNCHANGED vars

\* A wrong switch: None leaves the destination where it is.
new_out_none_ignored(target) ==
    IF target # NoCanvas THEN canvases[target].target ELSE data_out

\* A wrong switch: a canvas is bound only while the screen is current.
new_out_stacked(target) ==
    IF target # NoCanvas
    THEN IF data_out = screen_render_target THEN canvases[target].target
         ELSE data_out
    ELSE screen_render_target

\* The handle set_canvas assigns to ctx.gfx_context.data.out.
new_out(target) ==
    IF target # NoCanvas THEN canvases[target].target ELSE screen_render_target

\* A wrong switch: data.out is a plain id that does not hold the texture.
rebind_weak(txs, old, new) == txs

\* data.out = handle.clone(): the clone holds the texture, the handle that
\* was in data.out is dropped.
rebind(txs, old, new) == release(retain(txs, new), old)

\* set_canvas(ctx, target).
set_canvas(target) ==
    /\ target # NoCanvas => Live(target)
    /\ data_out' = new_out(target)
    /\ textures' = rebind(textures, data_out, new_out(target))
    /\ lastTarget' = [called |-> TRUE, canvas |-> target,
                      view |-> IF target # NoCanvas THEN canvases[target].target
                               ELSE screen_render_target,
                      prev_out |-> data_out]
    /\ UNCHANGED <<canvases, images, screen_render_target, default_sampler_info,
                   request, result, blendSet>>

(* ------------------------- specifications ----------------------------- *)

Targets == CanvasIds \cup {NoCanvas}

\* A call of either constructor with the application's request.
Construct(c, fault) ==
    \/ Canvas_new(c, request.width, request.height, request.samples, fault)
    \/ with_window_size(c, request.width, request.height, fault)

\* Multisampled requests the backend can serve, and one it cannot.
LifeRequests ==
    {r \in Requests : /\ r.width \in {0, 1, MaxTextureSize}
                      /\ r.height = 1
                      /\ r.samples = 4}

Init == InitWith(LifeRequests)

\* The whole API.
Next ==
    \/ \E c \in CanvasIds, fault \in Faults : Construct(c, fault)
    \/ \E c \in CanvasIds : get_image(c)
    \/ \E c \in CanvasIds : into_inner(c)
    \/ \E c \in CanvasIds : drop_canvas(c)
    \/ \E c \in CanvasIds : drop_image(c)
    \/ \E c \in CanvasIds, mode \in OptBlendModes : set_blend_mode(c, mode)
    \/ \E c \in CanvasIds : get_blend_mode(c)
    \/ \E target \in Targets : set_canvas(target)

Spec == Init /\ [][Next]_vars

InitNew == InitWith(Requests)

\* Construction from every request, destruction and the switch.
NextNew ==
    \/ \E c \in CanvasIds, fault \in Faults : Construct(c, fault)
    \/ \E c \in CanvasIds : drop_canvas(c)
    \/ \E target \in Targets : set_canvas(target)

SpecNew == InitNew /\ [][NextNew]_vars

(* --------------------------- claims ----------------------------------- *)

\* Some canvas operation on handle c can be called.
CanvasOpEnabled(c) ==
    \/ ENABLED get_image(c)
    \/ ENABLED into_inner(c)
    \/ ENABLED drop_canvas(c)
    \/ ENABLED get_blend_mode(c)
    \/ ENABLED set_blend_mode(c, NoBlend)
    \/ ENABLED set_canvas(c)

\* A requested size the backend cannot make a texture of.
InvalidSize(width, height) ==
    \/ width = 0 \/ height = 0
    \/ width > MaxTextureSize \/ height > MaxTextureSize

\* C1: a set_canvas(ctx, Some(c)) step ends with data.out equal to c.target,
\* and a set_canvas(ctx, None) step ends with data.out equal to the screen
\* target captured at context creation, whatever was bound before; so going
\* to a canvas and back ends at the initial screen destination.
C1_SetCanvasBinds ==
    [][\A t \in Targets : set_canvas(t) =>
            data_out' = IF t = NoCanvas THEN ScreenTarget
                        ELSE canvases[t].target]_vars

\* C1 happens: None was passed while a canvas was bound.
C1_Witness ==
    /\ lastTarget.called /\ lastTarget.canvas = NoCanvas
    /\ lastTarget.prev_out # ScreenTarget
    /\ data_out = ScreenTarget

\* C2: whatever canvases are created, bound and destroyed, data.out never
\* names a texture that has been destroyed.
C2_OutNeverDangles ==
    data_out # screen_render_target =>
        /\ textures[data_out].allocated
        /\ textures[data_out].refs >= 1

\* C2 happens: the bound canvas was destroyed and no Image holds its texture.
C2_Witness ==
    /\ data_out # screen_render_target
    /\ \A c \in CanvasIds :
        /\ canvases[c].target # data_out
        /\ images[c].texture # data_out
    /\ \E c \in CanvasIds : canvases[c].state = "dropped"

\* C3: after any sequence of calls, data.out is the view of the target of the
\* latest set_canvas call (the screen for None): nothing is stacked, and a
\* repeated call changes nothing.
C3_LastCallWins ==
    lastTarget.called => data_out = lastTarget.view

\* C3 happens: canvas B was bound while another canvas A was bound.
C3_Witness ==
    /\ lastTarget.called /\ lastTarget.canvas # NoCanvas
    /\ lastTarget.prev_out # ScreenTarget
    /\ lastTarget.prev_out # lastTarget.view
    /\ data_out = lastTarget.view

\* C4: Canvas::new of an invalid size (a zero width or height, or one above
\* the backend's maximum) fails with UnsupportedSize and allocates nothing.
C4_InvalidSizeRejected ==
    [][\A c \in CanvasIds, f \in Faults :
            (Construct(c, f) /\ InvalidSize(request.width, request.height)) =>
                /\ ~result'.ok
                /\ result'.err = "UnsupportedSize"
                /\ textures' = textures]_vars

\* C5: Canvas::new of a valid size that the backend accepts succeeds, and
\* get_image() reports the requested width and height.
C5_ValidSizeKept ==
    [][\A c \in CanvasIds :
            (/\ Construct(c, "none")
             /\ ~InvalidSize(request.width, request.height)) =>
                /\ result'.ok
                /\ canvases'[c].state = "live"
                /\ get_image_value(canvases'[c]).width = request.width
                /\ get_image_value(canvases'[c]).height = request.height]_vars

\* C5 happens: a multisampled canvas of the largest width and another height.
C5_Witness ==
    \E c \in CanvasIds :
        /\ Live(c) /\ result.ok
        /\ canvases[c].image.width = MaxTextureSize
        /\ canvases[c].image.height = 1
        /\ textures[canvases[c].target].aa = AaMode(4)

\* C6: data.out starts as the screen target and only set_canvas changes it;
\* no call changes the captured screen target; so data.out is always the
\* screen target or the view of a canvas that was passed to set_canvas.
C6_OnlySetCanvasRebinds ==
    [][/\ data_out' # data_out => \E t \in Targets : set_canvas(t)
       /\ screen_render_target' = screen_render_target
       /\ \/ data_out' = screen_render_target'
          \/ /\ lastTarget'.canvas # NoCanvas
             /\ data_out' = lastTarget'.view]_vars

\* C6 happens: with a canvas bound, that canvas has been given a blend mode
\* and taken apart by into_inner, and a later creation has failed.
C6_Witness ==
    /\ data_out # screen_render_target
    /\ ~result.ok
    /\ \E c \in CanvasIds :
        /\ canvases[c].state = "consumed"
        /\ images[c].texture = data_out
        /\ images[c].blend_mode # NoBlend

\* C7: get_blend_mode() returns the mode of the latest set_blend_mode call
\* on that canvas (None on a fresh canvas), and the Image into_inner() gives
\* carries that mode, whatever set_canvas calls came in between.
C7_BlendModeKept ==
    \A c \in CanvasIds :
        /\ Live(c) => get_blend_mode_value(canvases[c]) = blendSet[c]
        /\ images[c] # NoImage => images[c].blend_mode = blendSet[c]

\* C7 happens: an Image with a mode set came out of a canvas that was bound.
C7_Witness ==
    \E c \in CanvasIds :
        /\ images[c] # NoImage
        /\ images[c].blend_mode = "Add"
        /\ data_out = images[c].texture

\* C8: into_inner() ends the Canvas: no operation on it can be called any
\* more; and the Image it gives has the width, height and sampler that
\* get_image() gave just before.
C8_IntoInnerConsumes ==
    /\ [](\A c \in CanvasIds :
            canvases[c].state = "consumed" => ~CanvasOpEnabled(c))
    /\ [][\A c \in CanvasIds :
            (Live(c) /\ canvases'[c].state = "consumed") =>
                /\ images'[c].width = get_image_value(canvases[c]).width
                /\ images'[c].height = get_image_value(canvases[c]).height
                /\ images'[c].sampler_info =
                       get_image_value(canvases[c]).sampler_info]_vars

\* C8 happens: an Image with a non-stock sampler came out of a canvas.
C8_Witness ==
    \E c \in CanvasIds :
        /\ canvases[c].state = "consumed"
        /\ images[c].width = MaxTextureSize
        /\ images[c].height = 1
        /\ images[c].sampler_info = "Nearest"

\* C9: in every Canvas the render-target view and the image's view are of
\* the same texture, and the image's width and height are that texture's.
C9_ImageSizeIsTextureSize ==
    \A c \in CanvasIds : Live(c) =>
        /\ canvases[c].target = canvases[c].image.texture
        /\ canvases[c].image.width = textures[canvases[c].target].width
        /\ canvases[c].image.height = textures[canvases[c].target].height

\* C10: Canvas::new is all or nothing: when one of the three factory calls
\* fails it returns the error, makes no Canvas, leaves no texture allocated
\* and leaves data.out alone; it returns a Canvas, with both views, only
\* when all three succeed.
C10_AllOrNothing ==
    [][\A c \in CanvasIds, f \in Faults :
            Construct(c, f) =>
                /\ f # "none" => ~result'.ok
                /\ ~result'.ok =>
                    /\ result'.err # ""
                    /\ canvases' = canvases
                    /\ textures' = textures
                    /\ data_out' = data_out
                /\ result'.ok =>
                    /\ f = "none"
                    /\ canvases'[c].state = "live"
                    /\ textures'[canvases'[c].target].refs = 2]_vars

\* C10 happens: the third factory call failed while a canvas was bound.
C10_Witness ==
    /\ ~result.ok /\ result.step = 3
    /\ data_out # screen_render_target

====
